---- MODULE Spec2Model ----
(***************************************************************************)
(* A model of the copy-on-write B-tree of src/btree.go.                    *)
(*                                                                         *)
(* Nodes live in a heap (node id -> node); a pointer is a node id, 0 is    *)
(* the nil pointer.  A copyOnWriteContext pointer is a token id, 0 is nil. *)
(* Go indexes from 0 and TLA+ sequences from 1: every index below is the   *)
(* Go index, and s[i+1] is Go's s[i].  Items are the Int items of the      *)
(* source (type Int), 0 stands for the nil Item.                           *)
(*                                                                         *)
(* A panic is recoverable in Go: an operation that panics ends at once and *)
(* leaves behind whatever it had already written.  Operators that can      *)
(* panic return a "panic" flag beside the state they leave.                *)
(***************************************************************************)
EXTENDS Integers, Sequences, FiniteSets, TLC

\* ---------------------------------------------------------------- bounds
MaxItem == 7
FreeListSize == 2
MaxDegree == 3
MaxDeficit == 3
MaxClones == 1

NilItem == 0
NilNode == 0
NilCow == 0

Items == 1..MaxItem
Degrees == 1..MaxDegree

\* heap, freelist, trees: the memory, the one FreeList, the handle variables.
\* elems: for each handle, the set its tree stands for (what was inserted and
\*        not since deleted).
\* ret:   the last operation called: its name, the handle it was called on,
\*        what it returned and whether it panicked.
\* written, nclones: the handles written since the last Clone, and the
\*        number of Clone calls so far.
\* run:   for each handle, the goroutine that writes it (see "goroutines").
\* iso:   for each handle, the memory and handles of a program in which the
\*        calls made on that handle since the Clone are the only ones made.
\* handed: a goroutine has taken from the FreeList a node the other put there
\*        in a call it had not yet returned from.
VARIABLES heap, freelist, trees, elems, ret, written, nclones, run, iso, handed

vars == <<heap, freelist, trees, elems, ret, written, nclones, run, iso, handed>>

\* ---------------------------------------------------------------- Int.Less
Less(a, b) == a < b

\* ---------------------------------------------------------------- items
\* items_insertAt that puts the item last whatever the index
items_insertAt_last(s, index, item) == Append(s, item)

items_insertAt(s, index, item) ==
    SubSeq(s, 1, index) \o <<item>> \o SubSeq(s, index + 1, Len(s))

items_removeAt(s, index) ==
    [item |-> s[index + 1],
     rest |-> SubSeq(s, 1, index) \o SubSeq(s, index + 2, Len(s))]

\* items_pop that takes the first item out
items_pop_first(s) == [out |-> s[1], rest |-> Tail(s)]

items_pop(s) ==
    [out |-> s[Len(s)], rest |-> SubSeq(s, 1, Len(s) - 1)]

items_truncate(s, index) == SubSeq(s, 1, index)

\* sort.Search(n, f): the smallest index in [0, n) at which f is true, by
\* bisection; f(h) here is item.Less(i[h]).
RECURSIVE Search(_, _, _, _)
Search(i, j, s, item) ==
    IF i < j
    THEN LET h == (i + j) \div 2
         IN  IF ~Less(item, s[h + 1])
             THEN Search(h + 1, j, s, item)
             ELSE Search(i, h, s, item)
    ELSE i

find(s, item) ==
    LET n == Search(0, Len(s), s, item)
    IN  IF n > 0 /\ ~Less(s[n], item)
        THEN [index |-> n - 1, found |-> TRUE]
        ELSE [index |-> n, found |-> FALSE]

\* ---------------------------------------------------------------- children
children_insertAt(c, index, n) ==
    SubSeq(c, 1, index) \o <<n>> \o SubSeq(c, index + 1, Len(c))

children_removeAt(c, index) ==
    [n |-> c[index + 1],
     rest |-> SubSeq(c, 1, index) \o SubSeq(c, index + 2, Len(c))]

children_pop(c) ==
    [out |-> c[Len(c)], rest |-> SubSeq(c, 1, Len(c) - 1)]

children_truncate(c, index) == SubSeq(c, 1, index)

\* ---------------------------------------------------------------- sequencing
\* Bind(v, LAMBDA x : e) is "x := v" followed by e: the statements of a
\* function body in their order, each reading the memory the previous left.
Bind(v, F(_)) == F(v)

\* ---------------------------------------------------------------- memory
\* st is the memory an operation works on: [heap, fl, mu, log, wr, grew].  heap and
\* fl are the nodes and the FreeList as the running goroutine has them; mu is
\* what the FreeList holds each next time the goroutine gets its mutex (empty
\* when no other goroutine runs); log is what the goroutine left in the
\* FreeList each time it released the mutex; wr is the stores made to fields
\* of nodes: each as the node and the cow the node had when it was stored to;
\* grew is the nodes growChildAndRemove has been called on, in the order of
\* the calls.
Range(s) == {s[k] : k \in 1..Len(s)}

\* new(node): a fresh node, at an address no live node has.
NewAddr(h) ==
    CHOOSE k \in 1..(Cardinality(DOMAIN h) + 1) :
        /\ k \notin DOMAIN h
        /\ \A j \in 1..(k - 1) : j \in DOMAIN h

ZeroNode == [items |-> <<>>, children |-> <<>>, cow |-> NilCow]

SetItems(st, n, s) ==
    [st EXCEPT !.heap[n].items = s, !.wr = @ \cup {<<n, st.heap[n].cow>>}]

SetChildren(st, n, c) ==
    [st EXCEPT !.heap[n].children = c, !.wr = @ \cup {<<n, st.heap[n].cow>>}]

SetCow(st, n, c) ==
    [st EXCEPT !.heap[n].cow = c, !.wr = @ \cup {<<n, st.heap[n].cow>>}]

\* ---------------------------------------------------------------- FreeList
\* f.mu.Lock(): the goroutine goes on once it has the mutex, and finds in the
\* FreeList what the goroutines that had the mutex before it left there.  A
\* node in the FreeList has been through copyOnWriteContext.freeNode: it has
\* no items, no children and no cow.
FreeList_Lock(st) ==
    IF st.mu = <<>>
    THEN st
    ELSE [st EXCEPT !.fl   = Head(st.mu),
                    !.heap = [n \in Range(Head(st.mu)) |-> ZeroNode] @@ @,
                    !.mu   = Tail(@)]

\* f.mu.Unlock()
FreeList_Unlock(st) == [st EXCEPT !.log = Append(@, st.fl)]

FreeList_newNode(st) ==
    Bind(FreeList_Lock(st), LAMBDA s :
    Bind(Len(s.fl) - 1, LAMBDA index :
    IF index < 0
    THEN Bind(NewAddr(s.heap), LAMBDA a :
         [st |-> [FreeList_Unlock(s) EXCEPT !.heap = a :> ZeroNode @@ @], n |-> a])
    ELSE [st |-> FreeList_Unlock([s EXCEPT !.fl = SubSeq(s.fl, 1, index)]),
          n  |-> s.fl[index + 1]]))

\* freeNode that takes the node whatever the FreeList holds
FreeList_freeNode_always(st, n) ==
    Bind(FreeList_Lock(st), LAMBDA s :
    [st |-> FreeList_Unlock([s EXCEPT !.fl = Append(s.fl, n)]), out |-> TRUE])

FreeList_freeNode(st, n) ==
    Bind(FreeList_Lock(st), LAMBDA s :
    IF Len(s.fl) < FreeListSize
    THEN [st |-> FreeList_Unlock([s EXCEPT !.fl = Append(s.fl, n)]), out |-> TRUE]
    ELSE [st |-> FreeList_Unlock(s), out |-> FALSE])

\* ---------------------------------------------------------------- copyOnWriteContext
cow_newNode(st, c) ==
    Bind(FreeList_newNode(st), LAMBDA r :
    [st |-> SetCow(r.st, r.n, c), n |-> r.n])

\* freeNode that gives the node to the FreeList whoever owns it
cow_freeNode_any(st, c, n) ==
    Bind(SetItems(st, n, items_truncate(st.heap[n].items, 0)), LAMBDA s1 :
    Bind(SetChildren(s1, n, children_truncate(s1.heap[n].children, 0)), LAMBDA s2 :
    Bind(FreeList_freeNode(SetCow(s2, n, NilCow), n), LAMBDA r :
    [st |-> r.st, out |-> IF r.out THEN "ftStored" ELSE "ftFreelistFull"])))

cow_freeNode(st, c, n) ==
    IF st.heap[n].cow = c
    THEN Bind(SetItems(st, n, items_truncate(st.heap[n].items, 0)), LAMBDA s1 :
         Bind(SetChildren(s1, n, children_truncate(s1.heap[n].children, 0)), LAMBDA s2 :
         Bind(FreeList_freeNode(SetCow(s2, n, NilCow), n), LAMBDA r :
         [st |-> r.st, out |-> IF r.out THEN "ftStored" ELSE "ftFreelistFull"])))
    ELSE [st |-> st, out |-> "ftNotOwned"]

\* ---------------------------------------------------------------- node
\* mutableFor that hands the node out for writing whoever owns it
mutableFor_shared(st, n, cow) == [st |-> st, n |-> n]

mutableFor(st, n, cow) ==
    IF st.heap[n].cow = cow
    THEN [st |-> st, n |-> n]
    ELSE Bind(cow_newNode(st, cow), LAMBDA r :
         Bind(SetItems(r.st, r.n, r.st.heap[n].items), LAMBDA s1 :
         [st |-> SetChildren(s1, r.n, s1.heap[n].children), n |-> r.n]))

\* mutableChild that hands the child out as it is, without a copy
mutableChild_inplace(st, n, i) == [st |-> st, n |-> st.heap[n].children[i + 1]]

mutableChild(st, n, i) ==
    Bind(mutableFor(st, st.heap[n].children[i + 1], st.heap[n].cow), LAMBDA r :
    [st |-> SetChildren(r.st, n, [r.st.heap[n].children EXCEPT ![i + 1] = r.n]),
     n  |-> r.n])

\* split that leaves in n the items it has moved to the new node
split_keeps(st, n, i) ==
    Bind(cow_newNode(st, st.heap[n].cow), LAMBDA r :
    Bind(SetItems(r.st, r.n,
             r.st.heap[r.n].items
                 \o SubSeq(r.st.heap[n].items, i + 2, Len(r.st.heap[n].items))),
         LAMBDA s2 :
    [st   |-> IF Len(s2.heap[n].children) > 0
              THEN Bind(SetChildren(s2, r.n,
                            s2.heap[r.n].children
                                \o SubSeq(s2.heap[n].children, i + 2,
                                          Len(s2.heap[n].children))),
                        LAMBDA s3 :
                   SetChildren(s3, n, children_truncate(s3.heap[n].children, i + 1)))
              ELSE s2,
     item |-> st.heap[n].items[i + 1],
     next |-> r.n]))

split(st, n, i) ==
    Bind(cow_newNode(st, st.heap[n].cow), LAMBDA r :
    Bind(SetItems(r.st, r.n,
             r.st.heap[r.n].items
                 \o SubSeq(r.st.heap[n].items, i + 2, Len(r.st.heap[n].items))),
         LAMBDA s1 :
    Bind(SetItems(s1, n, items_truncate(s1.heap[n].items, i)), LAMBDA s2 :
    [st   |-> IF Len(s2.heap[n].children) > 0
              THEN Bind(SetChildren(s2, r.n,
                            s2.heap[r.n].children
                                \o SubSeq(s2.heap[n].children, i + 2,
                                          Len(s2.heap[n].children))),
                        LAMBDA s3 :
                   SetChildren(s3, n, children_truncate(s3.heap[n].children, i + 1)))
              ELSE s2,
     item |-> st.heap[n].items[i + 1],
     next |-> r.n])))

\* n.children[i] with i out of range is Go's "index out of range" panic.
maybeSplitChild(st, n, i, maxItems) ==
    IF i >= Len(st.heap[n].children)
    THEN [st |-> st, split |-> FALSE, panic |-> TRUE]
    ELSE IF Len(st.heap[st.heap[n].children[i + 1]].items) < maxItems
    THEN [st |-> st, split |-> FALSE, panic |-> FALSE]
    ELSE Bind(mutableChild(st, n, i), LAMBDA first :
         Bind(split(first.st, first.n, maxItems \div 2), LAMBDA sp :
         Bind(SetItems(sp.st, n, items_insertAt(sp.st.heap[n].items, i, sp.item)),
              LAMBDA s1 :
         [st    |-> SetChildren(s1, n,
                        children_insertAt(s1.heap[n].children, i + 1, sp.next)),
          split |-> TRUE,
          panic |-> FALSE])))

RECURSIVE insert(_, _, _, _)

\* insert after the leaf case: the split of the child and the descent
insert_descend(st, n, item, maxItems, index) ==
    Bind(maybeSplitChild(st, n, index, maxItems), LAMBDA ms :
    IF ms.panic
    THEN [st |-> ms.st, out |-> NilItem, panic |-> TRUE]
    ELSE IF ms.split /\ ~Less(item, ms.st.heap[n].items[index + 1])
                     /\ ~Less(ms.st.heap[n].items[index + 1], item)
    THEN [st    |-> SetItems(ms.st, n, [ms.st.heap[n].items EXCEPT ![index + 1] = item]),
          out   |-> ms.st.heap[n].items[index + 1],
          panic |-> FALSE]
    ELSE Bind(mutableChild(ms.st, n,
                  IF ms.split /\ ~Less(item, ms.st.heap[n].items[index + 1])
                  THEN index + 1
                  ELSE index),
              LAMBDA c :
         insert(c.st, c.n, item, maxItems)))

insert(st, n, item, maxItems) ==
    Bind(find(st.heap[n].items, item), LAMBDA f :
    IF f.found
    THEN [st    |-> SetItems(st, n, [st.heap[n].items EXCEPT ![f.index + 1] = item]),
          out   |-> st.heap[n].items[f.index + 1],
          panic |-> FALSE]
    ELSE insert_descend(
             IF Len(st.heap[n].children) = 0
             THEN SetItems(st, n, items_insertAt(st.heap[n].items, f.index, item))
             ELSE st,
             n, item, maxItems, f.index))

\* ---------------------------------------------------------------- BTree
BTree_maxItems(tr) == tr.degree * 2 - 1

BTree_minItems(tr) == tr.degree - 1

\* a handle variable that holds no tree
NoTree == [degree |-> 0, length |-> 0, root |-> NilNode, cow |-> NilCow]

\* NewWithFreelist(degree, f); c is the address of the new context.
NewWithFreelist(degree, c) ==
    IF degree <= 1
    THEN [t |-> NoTree, panic |-> TRUE]
    ELSE [t     |-> [degree |-> degree, length |-> 0, root |-> NilNode, cow |-> c],
          panic |-> FALSE]

\* the split of a full root in ReplaceOrInsert, root being the mutable root
ReplaceOrInsert_root(st, tr, root) ==
    IF Len(st.heap[root].items) >= BTree_maxItems(tr)
    THEN Bind(split(st, root, BTree_maxItems(tr) \div 2), LAMBDA sp :
         Bind(cow_newNode(sp.st, tr.cow), LAMBDA nr :
         Bind(SetItems(nr.st, nr.n, Append(nr.st.heap[nr.n].items, sp.item)), LAMBDA s1 :
         [st   |-> SetChildren(s1, nr.n, s1.heap[nr.n].children \o <<root, sp.next>>),
          root |-> nr.n])))
    ELSE [st |-> st, root |-> root]

ReplaceOrInsert(st, tr, item) ==
    IF item = NilItem
    THEN [st |-> st, t |-> tr, out |-> NilItem, panic |-> TRUE]
    ELSE IF tr.root = NilNode
    THEN Bind(cow_newNode(st, tr.cow), LAMBDA r :
         [st    |-> SetItems(r.st, r.n, Append(r.st.heap[r.n].items, item)),
          t     |-> [tr EXCEPT !.root = r.n, !.length = @ + 1],
          out   |-> NilItem,
          panic |-> FALSE])
    ELSE Bind(mutableFor(st, tr.root, tr.cow), LAMBDA m :
         Bind(ReplaceOrInsert_root(m.st, tr, m.n), LAMBDA g :
         Bind(insert(g.st, g.root, item, BTree_maxItems(tr)), LAMBDA r :
         [st    |-> r.st,
          t     |-> [tr EXCEPT !.root = g.root,
                               !.length = IF ~r.panic /\ r.out = NilItem
                                          THEN @ + 1 ELSE @],
          out   |-> r.out,
          panic |-> r.panic])))

\* ---------------------------------------------------------------- get, min, max
RECURSIVE get(_, _, _)

\* get that answers, for a key a leaf does not hold, with the first item of it
get_nearest(st, n, key) ==
    Bind(find(st.heap[n].items, key), LAMBDA f :
    IF f.found
    THEN st.heap[n].items[f.index + 1]
    ELSE IF Len(st.heap[n].children) > 0
    THEN get(st, st.heap[n].children[f.index + 1], key)
    ELSE IF Len(st.heap[n].items) > 0
    THEN st.heap[n].items[1]
    ELSE NilItem)

get(st, n, key) ==
    Bind(find(st.heap[n].items, key), LAMBDA f :
    IF f.found
    THEN st.heap[n].items[f.index + 1]
    ELSE IF Len(st.heap[n].children) > 0
    THEN get(st, st.heap[n].children[f.index + 1], key)
    ELSE NilItem)

RECURSIVE min(_, _)
min(st, n) ==
    IF n = NilNode
    THEN NilItem
    ELSE IF Len(st.heap[n].children) > 0
    THEN min(st, st.heap[n].children[1])
    ELSE IF Len(st.heap[n].items) = 0
    THEN NilItem
    ELSE st.heap[n].items[1]

RECURSIVE max(_, _)
max(st, n) ==
    IF n = NilNode
    THEN NilItem
    ELSE IF Len(st.heap[n].children) > 0
    THEN max(st, st.heap[n].children[Len(st.heap[n].children)])
    ELSE IF Len(st.heap[n].items) = 0
    THEN NilItem
    ELSE st.heap[n].items[Len(st.heap[n].items)]

\* ---------------------------------------------------------------- remove
removeItem == 0
removeMin == 1
removeMax == 2

RECURSIVE remove(_, _, _, _, _)
RECURSIVE growChildAndRemove(_, _, _, _, _, _)

\* remove_descend that grows a child only once it holds fewer than minItems
remove_descend_late(st, n, item, minItems, typ, i, found) ==
    IF Len(st.heap[st.heap[n].children[i + 1]].items) < minItems
    THEN growChildAndRemove(st, n, i, item, minItems, typ)
    ELSE Bind(mutableChild(st, n, i), LAMBDA child :
         IF found
         THEN Bind(remove(child.st, child.n, NilItem, minItems, removeMax), LAMBDA r :
              [st  |-> SetItems(r.st, n, [r.st.heap[n].items EXCEPT ![i + 1] = r.out]),
               out |-> child.st.heap[n].items[i + 1]])
         ELSE remove(child.st, child.n, item, minItems, typ))

\* remove at a node with children: i and found are those of remove
remove_descend(st, n, item, minItems, typ, i, found) ==
    IF Len(st.heap[st.heap[n].children[i + 1]].items) <= minItems
    THEN growChildAndRemove(st, n, i, item, minItems, typ)
    ELSE Bind(mutableChild(st, n, i), LAMBDA child :
         IF found
         THEN Bind(remove(child.st, child.n, NilItem, minItems, removeMax), LAMBDA r :
              [st  |-> SetItems(r.st, n, [r.st.heap[n].items EXCEPT ![i + 1] = r.out]),
               out |-> child.st.heap[n].items[i + 1]])
         ELSE remove(child.st, child.n, item, minItems, typ))

remove(st, n, item, minItems, typ) ==
    IF typ = removeMax
    THEN IF Len(st.heap[n].children) = 0
         THEN Bind(items_pop(st.heap[n].items), LAMBDA p :
              [st |-> SetItems(st, n, p.rest), out |-> p.out])
         ELSE remove_descend(st, n, item, minItems, typ, Len(st.heap[n].items), FALSE)
    ELSE IF typ = removeMin
    THEN IF Len(st.heap[n].children) = 0
         THEN Bind(items_removeAt(st.heap[n].items, 0), LAMBDA p :
              [st |-> SetItems(st, n, p.rest), out |-> p.item])
         ELSE remove_descend(st, n, item, minItems, typ, 0, FALSE)
    ELSE Bind(find(st.heap[n].items, item), LAMBDA f :
         IF Len(st.heap[n].children) = 0
         THEN IF f.found
              THEN Bind(items_removeAt(st.heap[n].items, f.index), LAMBDA p :
                   [st |-> SetItems(st, n, p.rest), out |-> p.item])
              ELSE [st |-> st, out |-> NilItem]
         ELSE remove_descend(st, n, item, minItems, typ, f.index, f.found))

\* growChildAndRemove is entered at node n
Grew(st, n) == [st EXCEPT !.grew = Append(@, n)]

\* steal from the left sibling
growChild_left(st, n, i) ==
    Bind(mutableChild(st, n, i), LAMBDA child :
    Bind(mutableChild(child.st, n, i - 1), LAMBDA stealFrom :
    Bind(items_pop(stealFrom.st.heap[stealFrom.n].items), LAMBDA p :
    Bind(SetItems(stealFrom.st, stealFrom.n, p.rest), LAMBDA s1 :
    Bind(SetItems(s1, child.n,
             items_insertAt(s1.heap[child.n].items, 0, s1.heap[n].items[i])),
         LAMBDA s2 :
    Bind(SetItems(s2, n, [s2.heap[n].items EXCEPT ![i] = p.out]), LAMBDA s3 :
    IF Len(s3.heap[stealFrom.n].children) > 0
    THEN Bind(children_pop(s3.heap[stealFrom.n].children), LAMBDA q :
         Bind(SetChildren(s3, stealFrom.n, q.rest), LAMBDA s4 :
         SetChildren(s4, child.n,
             children_insertAt(s4.heap[child.n].children, 0, q.out))))
    ELSE s3))))))

\* a steal from the right sibling in which the child gets nothing
growChild_right_lost(st, n, i) ==
    Bind(mutableChild(st, n, i), LAMBDA child :
    Bind(mutableChild(child.st, n, i + 1), LAMBDA stealFrom :
    Bind(items_removeAt(stealFrom.st.heap[stealFrom.n].items, 0), LAMBDA p :
    Bind(SetItems(stealFrom.st, stealFrom.n, p.rest), LAMBDA s1 :
    SetItems(s1, n, [s1.heap[n].items EXCEPT ![i + 1] = p.item])))))

\* steal from the right sibling
growChild_right(st, n, i) ==
    Bind(mutableChild(st, n, i), LAMBDA child :
    Bind(mutableChild(child.st, n, i + 1), LAMBDA stealFrom :
    Bind(items_removeAt(stealFrom.st.heap[stealFrom.n].items, 0), LAMBDA p :
    Bind(SetItems(stealFrom.st, stealFrom.n, p.rest), LAMBDA s1 :
    Bind(SetItems(s1, child.n, Append(s1.heap[child.n].items, s1.heap[n].items[i + 1])),
         LAMBDA s2 :
    Bind(SetItems(s2, n, [s2.heap[n].items EXCEPT ![i + 1] = p.item]), LAMBDA s3 :
    IF Len(s3.heap[stealFrom.n].children) > 0
    THEN Bind(children_removeAt(s3.heap[stealFrom.n].children, 0), LAMBDA q :
         Bind(SetChildren(s3, stealFrom.n, q.rest), LAMBDA s4 :
         SetChildren(s4, child.n, Append(s4.heap[child.n].children, q.n))))
    ELSE s3))))))

\* merge child i with its right sibling (i already moved left of the last item)
growChild_merge(st, n, i) ==
    Bind(mutableChild(st, n, i), LAMBDA child :
    Bind(items_removeAt(child.st.heap[n].items, i), LAMBDA mergeItem :
    Bind(SetItems(child.st, n, mergeItem.rest), LAMBDA s1 :
    Bind(children_removeAt(s1.heap[n].children, i + 1), LAMBDA mergeChild :
    Bind(SetChildren(s1, n, mergeChild.rest), LAMBDA s2 :
    Bind(SetItems(s2, child.n, Append(s2.heap[child.n].items, mergeItem.item)),
         LAMBDA s3 :
    Bind(SetItems(s3, child.n, s3.heap[child.n].items \o s3.heap[mergeChild.n].items),
         LAMBDA s4 :
    Bind(SetChildren(s4, child.n,
             s4.heap[child.n].children \o s4.heap[mergeChild.n].children),
         LAMBDA s5 :
    cow_freeNode(s5, s5.heap[n].cow, mergeChild.n).st))))))))

growChildAndRemove(st, n, i, item, minItems, typ) ==
    remove(
        IF i > 0 /\ Len(st.heap[st.heap[n].children[i]].items) > minItems
        THEN growChild_left(Grew(st, n), n, i)
        ELSE IF /\ i < Len(st.heap[n].items)
                /\ Len(st.heap[st.heap[n].children[i + 2]].items) > minItems
        THEN growChild_right(Grew(st, n), n, i)
        ELSE growChild_merge(Grew(st, n), n,
                             IF i >= Len(st.heap[n].items) THEN i - 1 ELSE i),
        n, item, minItems, typ)

\* the end of deleteItem that frees the child the root gives way to
deleteItem_root_child(st, tr, root) ==
    IF Len(st.heap[root].items) = 0 /\ Len(st.heap[root].children) > 0
    THEN [st |-> cow_freeNode(st, tr.cow, st.heap[root].children[1]).st,
          root |-> st.heap[root].children[1]]
    ELSE [st |-> st, root |-> root]

\* the end of deleteItem: a root left with no item and one child gives way to it
deleteItem_root(st, tr, root) ==
    IF Len(st.heap[root].items) = 0 /\ Len(st.heap[root].children) > 0
    THEN [st |-> cow_freeNode(st, tr.cow, root).st, root |-> st.heap[root].children[1]]
    ELSE [st |-> st, root |-> root]

\* deleteItem that counts a deletion whether or not an item was found
deleteItem_counted(st, tr, item, typ) ==
    IF tr.root = NilNode \/ Len(st.heap[tr.root].items) = 0
    THEN [st |-> st, t |-> tr, out |-> NilItem, panic |-> FALSE]
    ELSE Bind(mutableFor(st, tr.root, tr.cow), LAMBDA m :
         Bind(remove(m.st, m.n, item, BTree_minItems(tr), typ), LAMBDA r :
         Bind(deleteItem_root(r.st, tr, m.n), LAMBDA g :
         [st  |-> g.st,
          t   |-> [tr EXCEPT !.root = g.root, !.length = @ - 1],
          out   |-> r.out,
          panic |-> FALSE])))

deleteItem(st, tr, item, typ) ==
    IF tr.root = NilNode \/ Len(st.heap[tr.root].items) = 0
    THEN [st |-> st, t |-> tr, out |-> NilItem, panic |-> FALSE]
    ELSE Bind(mutableFor(st, tr.root, tr.cow), LAMBDA m :
         Bind(remove(m.st, m.n, item, BTree_minItems(tr), typ), LAMBDA r :
         Bind(deleteItem_root(r.st, tr, m.n), LAMBDA g :
         [st  |-> g.st,
          t   |-> [tr EXCEPT !.root = g.root,
                             !.length = IF r.out # NilItem THEN @ - 1 ELSE @],
          out   |-> r.out,
          panic |-> FALSE])))

Delete(st, tr, item) == deleteItem(st, tr, item, removeItem)

DeleteMin(st, tr) == deleteItem(st, tr, NilItem, removeMin)

DeleteMax(st, tr) == deleteItem(st, tr, NilItem, removeMax)

\* ---------------------------------------------------------------- iterate
descend == -1
ascend == 1

\* An ItemIterator is modelled by the set of items on which it returns false.
\* acc is the sequence of items the iterator has been called on so far; the
\* result is [hit, ok, out]: the two results of the source and that sequence.
RECURSIVE iterate(_, _, _, _, _, _, _, _, _)
RECURSIVE iterate_ascend(_, _, _, _, _, _, _, _, _)
RECURSIVE iterate_descend(_, _, _, _, _, _, _, _, _)

\* iterate_ascend_item that stops only past the stop item
iterate_ascend_item_past(st, n, i, start, stop, includeStart, falseOn, c, x) ==
    IF ~c.ok
    THEN [hit |-> c.hit, ok |-> FALSE, out |-> c.out]
    ELSE IF ~includeStart /\ ~c.hit /\ start # NilItem /\ ~Less(start, x)
    THEN iterate_ascend(st, n, i + 1, start, stop, includeStart, TRUE, falseOn, c.out)
    ELSE IF stop # NilItem /\ Less(stop, x)
    THEN [hit |-> TRUE, ok |-> FALSE, out |-> c.out]
    ELSE IF x \in falseOn
    THEN [hit |-> TRUE, ok |-> FALSE, out |-> Append(c.out, x)]
    ELSE iterate_ascend(st, n, i + 1, start, stop, includeStart, TRUE, falseOn,
                        Append(c.out, x))

\* iterate_ascend_item that goes on when the child has returned false
iterate_ascend_item_deaf(st, n, i, start, stop, includeStart, falseOn, c, x) ==
    IF ~includeStart /\ ~c.hit /\ start # NilItem /\ ~Less(start, x)
    THEN iterate_ascend(st, n, i + 1, start, stop, includeStart, TRUE, falseOn, c.out)
    ELSE IF stop # NilItem /\ ~Less(x, stop)
    THEN [hit |-> TRUE, ok |-> FALSE, out |-> c.out]
    ELSE IF x \in falseOn
    THEN [hit |-> TRUE, ok |-> FALSE, out |-> Append(c.out, x)]
    ELSE iterate_ascend(st, n, i + 1, start, stop, includeStart, TRUE, falseOn,
                        Append(c.out, x))

\* one pass of the ascend loop once the child left of items[i] is done: c is
\* what that child returned (or the state before, at a leaf), x is items[i]
iterate_ascend_item(st, n, i, start, stop, includeStart, falseOn, c, x) ==
    IF ~c.ok
    THEN [hit |-> c.hit, ok |-> FALSE, out |-> c.out]
    ELSE IF ~includeStart /\ ~c.hit /\ start # NilItem /\ ~Less(start, x)
    THEN iterate_ascend(st, n, i + 1, start, stop, includeStart, TRUE, falseOn, c.out)
    ELSE IF stop # NilItem /\ ~Less(x, stop)
    THEN [hit |-> TRUE, ok |-> FALSE, out |-> c.out]
    ELSE IF x \in falseOn
    THEN [hit |-> TRUE, ok |-> FALSE, out |-> Append(c.out, x)]
    ELSE iterate_ascend(st, n, i + 1, start, stop, includeStart, TRUE, falseOn,
                        Append(c.out, x))

\* the ascend loop of iterate from index i on, and the code after it
iterate_ascend(st, n, i, start, stop, includeStart, hit, falseOn, acc) ==
    IF i < Len(st.heap[n].items)
    THEN iterate_ascend_item(st, n, i, start, stop, includeStart, falseOn,
             IF Len(st.heap[n].children) > 0
             THEN iterate(st, st.heap[n].children[i + 1], ascend, start, stop,
                          includeStart, hit, falseOn, acc)
             ELSE [hit |-> hit, ok |-> TRUE, out |-> acc],
             st.heap[n].items[i + 1])
    ELSE IF Len(st.heap[n].children) > 0
    THEN iterate(st, st.heap[n].children[Len(st.heap[n].children)], ascend, start, stop,
                 includeStart, hit, falseOn, acc)
    ELSE [hit |-> hit, ok |-> TRUE, out |-> acc]

\* iterate_descend_item that stops only below the stop item
iterate_descend_item_past(st, n, i, start, stop, includeStart, falseOn, c, x) ==
    IF ~c.ok
    THEN [hit |-> c.hit, ok |-> FALSE, out |-> c.out]
    ELSE IF stop # NilItem /\ Less(x, stop)
    THEN [hit |-> c.hit, ok |-> FALSE, out |-> c.out]
    ELSE IF x \in falseOn
    THEN [hit |-> TRUE, ok |-> FALSE, out |-> Append(c.out, x)]
    ELSE iterate_descend(st, n, i - 1, start, stop, includeStart, TRUE, falseOn,
                         Append(c.out, x))

\* one pass of the descend loop once the child right of items[i] is done
iterate_descend_item(st, n, i, start, stop, includeStart, falseOn, c, x) ==
    IF ~c.ok
    THEN [hit |-> c.hit, ok |-> FALSE, out |-> c.out]
    ELSE IF stop # NilItem /\ ~Less(stop, x)
    THEN [hit |-> c.hit, ok |-> FALSE, out |-> c.out]
    ELSE IF x \in falseOn
    THEN [hit |-> TRUE, ok |-> FALSE, out |-> Append(c.out, x)]
    ELSE iterate_descend(st, n, i - 1, start, stop, includeStart, TRUE, falseOn,
                         Append(c.out, x))

\* the descend loop of iterate from index i down, and the code after it
iterate_descend(st, n, i, start, stop, includeStart, hit, falseOn, acc) ==
    IF i >= 0
    THEN IF /\ start # NilItem
            /\ ~Less(st.heap[n].items[i + 1], start)
            /\ (~includeStart \/ hit \/ Less(start, st.heap[n].items[i + 1]))
         THEN iterate_descend(st, n, i - 1, start, stop, includeStart, hit, falseOn, acc)
         ELSE iterate_descend_item(st, n, i, start, stop, includeStart, falseOn,
                  IF Len(st.heap[n].children) > 0
                  THEN iterate(st, st.heap[n].children[i + 2], descend, start, stop,
                               includeStart, hit, falseOn, acc)
                  ELSE [hit |-> hit, ok |-> TRUE, out |-> acc],
                  st.heap[n].items[i + 1])
    ELSE IF Len(st.heap[n].children) > 0
    THEN iterate(st, st.heap[n].children[1], descend, start, stop,
                 includeStart, hit, falseOn, acc)
    ELSE [hit |-> hit, ok |-> TRUE, out |-> acc]

iterate(st, n, dir, start, stop, includeStart, hit, falseOn, acc) ==
    IF dir = ascend
    THEN iterate_ascend(st, n,
             IF start # NilItem THEN find(st.heap[n].items, start).index ELSE 0,
             start, stop, includeStart, hit, falseOn, acc)
    ELSE iterate_descend(st, n,
             IF start # NilItem
             THEN Bind(find(st.heap[n].items, start), LAMBDA f :
                  IF ~f.found THEN f.index - 1 ELSE f.index)
             ELSE Len(st.heap[n].items) - 1,
             start, stop, includeStart, hit, falseOn, acc)

\* The eight scans: the sequence of items the iterator is called on.
AscendRange(st, tr, greaterOrEqual, lessThan, falseOn) ==
    IF tr.root = NilNode THEN <<>>
    ELSE iterate(st, tr.root, ascend, greaterOrEqual, lessThan, TRUE, FALSE,
                 falseOn, <<>>).out

AscendLessThan(st, tr, pivot, falseOn) ==
    IF tr.root = NilNode THEN <<>>
    ELSE iterate(st, tr.root, ascend, NilItem, pivot, FALSE, FALSE, falseOn, <<>>).out

AscendGreaterOrEqual(st, tr, pivot, falseOn) ==
    IF tr.root = NilNode THEN <<>>
    ELSE iterate(st, tr.root, ascend, pivot, NilItem, TRUE, FALSE, falseOn, <<>>).out

Ascend(st, tr, falseOn) ==
    IF tr.root = NilNode THEN <<>>
    ELSE iterate(st, tr.root, ascend, NilItem, NilItem, FALSE, FALSE, falseOn, <<>>).out

DescendRange(st, tr, lessOrEqual, greaterThan, falseOn) ==
    IF tr.root = NilNode THEN <<>>
    ELSE iterate(st, tr.root, descend, lessOrEqual, greaterThan, TRUE, FALSE,
                 falseOn, <<>>).out

DescendLessOrEqual(st, tr, pivot, falseOn) ==
    IF tr.root = NilNode THEN <<>>
    ELSE iterate(st, tr.root, descend, pivot, NilItem, TRUE, FALSE, falseOn, <<>>).out

DescendGreaterThan(st, tr, pivot, falseOn) ==
    IF tr.root = NilNode THEN <<>>
    ELSE iterate(st, tr.root, descend, NilItem, pivot, FALSE, FALSE, falseOn, <<>>).out

Descend(st, tr, falseOn) ==
    IF tr.root = NilNode THEN <<>>
    ELSE iterate(st, tr.root, descend, NilItem, NilItem, FALSE, FALSE, falseOn, <<>>).out

Get(st, tr, key) == IF tr.root = NilNode THEN NilItem ELSE get(st, tr.root, key)

Min(st, tr) == min(st, tr.root)

Max(st, tr) == max(st, tr.root)

Has(st, tr, key) == Get(st, tr, key) # NilItem

BTree_Len(tr) == tr.length

\* ---------------------------------------------------------------- Clear, Clone
RECURSIVE reset(_, _, _)
RECURSIVE reset_children(_, _, _, _)

\* the range loop of reset over the children, from the k-th on
reset_children(st, cs, k, c) ==
    IF k >= Len(cs)
    THEN [st |-> st, out |-> TRUE]
    ELSE Bind(reset(st, cs[k + 1], c), LAMBDA r :
         IF ~r.out
         THEN [st |-> r.st, out |-> FALSE]
         ELSE reset_children(r.st, cs, k + 1, c))

reset(st, n, c) ==
    Bind(reset_children(st, st.heap[n].children, 0, c), LAMBDA r :
    IF ~r.out
    THEN [st |-> r.st, out |-> FALSE]
    ELSE Bind(cow_freeNode(r.st, c, n), LAMBDA f :
         [st |-> f.st, out |-> f.out # "ftFreelistFull"]))

\* Clear that gives the nodes to the FreeList whatever the flag
Clear_resets(st, tr, addNodesToFreelist) ==
    [st |-> IF tr.root # NilNode
            THEN reset(st, tr.root, tr.cow).st
            ELSE st,
     t     |-> [tr EXCEPT !.root = NilNode, !.length = 0],
     out   |-> NilItem,
     panic |-> FALSE]

Clear(st, tr, addNodesToFreelist) ==
    [st |-> IF tr.root # NilNode /\ addNodesToFreelist
            THEN reset(st, tr.root, tr.cow).st
            ELSE st,
     t     |-> [tr EXCEPT !.root = NilNode, !.length = 0],
     out   |-> NilItem,
     panic |-> FALSE]

\* Clone that leaves t the context it had
Clone_keeps(tr, cow1, cow2) ==
    [t |-> tr, t2 |-> [tr EXCEPT !.cow = cow2]]

\* cow1 and cow2 are the addresses of the two new contexts.
Clone(tr, cow1, cow2) ==
    [t |-> [tr EXCEPT !.cow = cow1], t2 |-> [tr EXCEPT !.cow = cow2]]

\* ---------------------------------------------------------------- the program state
Handles == {1, 2}

Mem == [heap |-> heap, fl |-> freelist, mu |-> <<>>, log |-> <<>>, wr |-> {},
     grew |-> <<>>]

\* The nodes a program can still get at, in a fixed order: those under the
\* roots of the handles, depth first, then those held by the FreeList.
RECURSIVE Visit(_, _, _)
Visit(h, todo, seen) ==
    IF todo = <<>>
    THEN seen
    ELSE LET n == Head(todo)
         IN  IF n = NilNode \/ n \in Range(seen)
             THEN Visit(h, Tail(todo), seen)
             ELSE Visit(h, h[n].children \o Tail(todo), Append(seen, n))

Live(st, trs) == Visit(st.heap, <<trs[1].root, trs[2].root>> \o st.fl, <<>>)

RECURSIVE Distinct(_, _)
Distinct(s, seen) ==
    IF s = <<>>
    THEN seen
    ELSE IF Head(s) = NilCow \/ Head(s) \in Range(seen)
    THEN Distinct(Tail(s), seen)
    ELSE Distinct(Tail(s), Append(seen, Head(s)))

IndexOf(s, x) == CHOOSE k \in 1..Len(s) : s[k] = x

\* What an operation leaves: nodes no handle and no FreeList can reach are the
\* garbage collector's, and addresses carry no meaning beyond identity, so the
\* live nodes (order) and contexts (cows) are numbered in the order of Live.
Renumber(st, trs, order, cows) ==
    [heap  |-> [k \in 1..Len(order) |->
                  [items    |-> st.heap[order[k]].items,
                   children |-> [j \in 1..Len(st.heap[order[k]].children) |->
                                    IndexOf(order, st.heap[order[k]].children[j])],
                   cow      |-> IF st.heap[order[k]].cow = NilCow THEN NilCow
                                ELSE IndexOf(cows, st.heap[order[k]].cow)]],
     fl    |-> [k \in 1..Len(st.fl) |-> IndexOf(order, st.fl[k])],
     trees |-> [h \in Handles |->
                  [trs[h] EXCEPT
                     !.root = IF @ = NilNode THEN NilNode ELSE IndexOf(order, @),
                     !.cow  = IF @ = NilCow THEN NilCow ELSE IndexOf(cows, @)]]]

Cows(st, trs, order) ==
    Distinct(<<trs[1].cow, trs[2].cow>>
                 \o [k \in 1..Len(order) |-> st.heap[order[k]].cow], <<>>)

Collect(st, trs, order) == Renumber(st, trs, order, Cows(st, trs, order))

Commit(st, trs) == Collect(st, trs, Live(st, trs))

\* &copyOnWriteContext{...}: a context at an address no live context has
NewCow(used) ==
    CHOOSE k \in 1..(Cardinality(used) + 1) :
        /\ k \notin used
        /\ \A j \in 1..(k - 1) : j \in used

UsedCows == {trees[h].cow : h \in Handles} \cup {heap[n].cow : n \in DOMAIN heap}

\* a goroutine between calls, and the iso of a handle not yet cloned
NoCall == [op |-> "", x |-> NilItem, b |-> FALSE]

NoResult == [out |-> NilItem, panic |-> FALSE]

Idle ==
    [busy |-> FALSE, n |-> 0, call |-> NoCall, heap0 |-> <<>>, t0 |-> NoTree,
     mu |-> <<>>, gave |-> {}, own |-> TRUE, got |-> NoResult, want |-> NoResult]

NoIso == [heap |-> <<>>, fl |-> <<>>, trees |-> <<>>]

Init ==
    /\ heap = <<>>
    /\ freelist = <<>>
    /\ \E d \in Degrees :
          LET r == NewWithFreelist(d, 1)
          IN  /\ trees = [h \in Handles |-> IF h = 1 THEN r.t ELSE NoTree]
              /\ ret = [op |-> "New", h |-> 1, out |-> NilItem, panic |-> r.panic]
    /\ elems = [h \in Handles |-> {}]
    /\ written = {}
    /\ nclones = 0
    /\ run = [g \in Handles |-> Idle]
    /\ iso = [g \in Handles |-> NoIso]
    /\ handed = FALSE

\* the memory and the handles an operation leaves
Store(c) ==
    /\ heap' = c.heap
    /\ freelist' = c.fl
    /\ trees' = c.trees

\* the call of operation op on handle h, r being what it did
Return(h, op, r) ==
    /\ Store(Commit(r.st, [trees EXCEPT ![h] = r.t]))
    /\ ret' = [op |-> op, h |-> h, out |-> r.out, panic |-> r.panic]
    /\ written' = written \cup {h}
    /\ UNCHANGED <<nclones, run, iso, handed>>

DoReplaceOrInsert(h, x) ==
    /\ trees[h].degree > 0
    /\ Return(h, "ReplaceOrInsert", ReplaceOrInsert(Mem, trees[h], x))
    /\ elems' = [elems EXCEPT ![h] = IF x = NilItem THEN @ ELSE @ \cup {x}]

DoDelete(h, x) ==
    /\ trees[h].degree > 0
    /\ Return(h, "Delete", Delete(Mem, trees[h], x))
    /\ elems' = [elems EXCEPT ![h] = @ \ {ret'.out}]

DoDeleteMin(h) ==
    /\ trees[h].degree > 0
    /\ Return(h, "DeleteMin", DeleteMin(Mem, trees[h]))
    /\ elems' = [elems EXCEPT ![h] = @ \ {ret'.out}]

DoDeleteMax(h) ==
    /\ trees[h].degree > 0
    /\ Return(h, "DeleteMax", DeleteMax(Mem, trees[h]))
    /\ elems' = [elems EXCEPT ![h] = @ \ {ret'.out}]

DoClear(h, addNodesToFreelist) ==
    /\ trees[h].degree > 0
    /\ Return(h, IF addNodesToFreelist THEN "ClearTrue" ELSE "ClearFalse",
              Clear(Mem, trees[h], addNodesToFreelist))
    /\ elems' = [elems EXCEPT ![h] = {}]

\* the two handles Clone leaves: r.t in h, r.t2 in h2
Cloned(h, h2, r) == Store(Commit(Mem, [trees EXCEPT ![h] = r.t, ![h2] = r.t2]))

\* h2 = h.Clone()
CallClone(h, h2) ==
    /\ trees[h].degree > 0
    /\ h2 # h
    /\ nclones < MaxClones
    /\ Cloned(h, h2, Clone(trees[h], NewCow(UsedCows),
                           NewCow(UsedCows \cup {NewCow(UsedCows)})))
    /\ ret' = [op |-> "Clone", h |-> h, out |-> NilItem, panic |-> FALSE]
    /\ elems' = [elems EXCEPT ![h2] = elems[h]]
    /\ written' = {}
    /\ nclones' = nclones + 1

DoClone(h, h2) == CallClone(h, h2) /\ UNCHANGED <<run, iso, handed>>

\* ---------------------------------------------------------------- one handle
\* The writes on handle h with items of S.  Len() falls by one with every
\* deletion and, an insertion that panics not raising it, without limit: the
\* deletions stop once Len() is -deficit.
Write(h, S, deficit) ==
    \/ \E x \in S \cup {NilItem} : DoReplaceOrInsert(h, x)
    \/ \E x \in S : trees[h].length > -deficit /\ DoDelete(h, x)
    \/ trees[h].length > -deficit /\ DoDeleteMin(h)
    \/ trees[h].length > -deficit /\ DoDeleteMax(h)
    \/ \E b \in BOOLEAN : DoClear(h, b)

Next == Write(1, Items, MaxDeficit)

Spec == Init /\ [][Next]_vars

\* ---------------------------------------------------------------- two handles
\* A tree is built and cloned (t2 = t.Clone()); from then on one of the two
\* handles is written and the other is left as the clone made it.
MaxCloneItem == 4
CloneDeficit == 1
CloneItems == 1..MaxCloneItem

NextClone ==
    \/ \E h \in Handles : written \subseteq {h} /\ Write(h, CloneItems, CloneDeficit)
    \/ DoClone(1, 2)

SpecClone == Init /\ [][NextClone]_vars

\* ---------------------------------------------------------------- the pool
\* The FreeList by itself: the contexts of several trees take nodes from it
\* and give nodes back to it in any order, each call holding the mutex from
\* its Lock() to its Unlock().  A node a context holds carries that context
\* (copyOnWriteContext.newNode); MaxPoolNodes bounds the nodes allocated.
MaxPoolNodes == 4

\* c.newNode() by the context of handle h
PoolNewNode(h) ==
    /\ Len(freelist) > 0 \/ Cardinality(DOMAIN heap) < MaxPoolNodes
    /\ Bind(cow_newNode(Mem, h), LAMBDA r :
          /\ heap' = r.st.heap
          /\ freelist' = r.st.fl
          /\ ret' = [op |-> "newNode", h |-> h, out |-> r.n, panic |-> FALSE])
    /\ UNCHANGED <<trees, elems, written, nclones, run, iso, handed>>

\* c.freeNode(n) by the context of handle h, of a node n it holds
PoolFreeNode(h, n) ==
    /\ heap[n].cow = h
    /\ Bind(cow_freeNode(Mem, h, n), LAMBDA r :
          /\ heap' = r.st.heap
          /\ freelist' = r.st.fl
          /\ ret' = [op |-> "freeNode", h |-> h, out |-> r.out, panic |-> FALSE])
    /\ UNCHANGED <<trees, elems, written, nclones, run, iso, handed>>

NextPool ==
    \/ \E h \in Handles : PoolNewNode(h)
    \/ \E h \in Handles : \E n \in DOMAIN heap : PoolFreeNode(h, n)

SpecPool == Init /\ [][NextPool]_vars

\* ---------------------------------------------------------------- goroutines
\* After t2 = t.Clone() one goroutine writes t and another writes t2, each
\* its own handle only; the two share the FreeList.  Between two acquisitions
\* of the FreeList's mutex a goroutine works on nodes of its own and reads
\* nodes no one writes, so that a step of a goroutine is: get the mutex, do
\* what newNode or freeNode does with the FreeList, and run on to the next
\* Lock() or to the return of the call.
\*
\* run[g] is the goroutine of handle g: the call it is in, the memory and the
\* handle as they were when the call began (heap0, t0), what it found in the
\* FreeList each time it got the mutex (mu), the nodes it has put there (gave),
\* the number of calls it has made (n), and what its last call returned (got)
\* beside what the same call returned in iso (want).
MaxGoItem == 3
MaxGoOps == 2
GoDeficit == 0
ArenaSplit == 32

GoItems == 1..MaxGoItem

Other(g) == 3 - g

GoCalls ==
    {[op |-> "ReplaceOrInsert", x |-> x, b |-> FALSE] : x \in GoItems}
        \cup {[op |-> "Delete", x |-> x, b |-> FALSE] : x \in GoItems}
        \cup {[op |-> o, x |-> NilItem, b |-> FALSE] : o \in {"DeleteMin", "DeleteMax"}}

\* the call c on the handle value tr in the memory st
Exec(c, st, tr) ==
    CASE c.op = "ReplaceOrInsert" -> ReplaceOrInsert(st, tr, c.x)
      [] c.op = "Delete"          -> Delete(st, tr, c.x)
      [] c.op = "DeleteMin"       -> DeleteMin(st, tr)
      [] c.op = "DeleteMax"       -> DeleteMax(st, tr)

\* new(node) in two goroutines never gives one address twice: the goroutine
\* of handle 1 takes the smallest free address and the goroutine of handle 2
\* the smallest free address above ArenaSplit.
GoHeap(g, h0) ==
    IF g = 1 THEN h0
    ELSE [n \in (1..ArenaSplit) \ DOMAIN h0 |-> ZeroNode] @@ h0

\* the call of goroutine rr run from its beginning, the goroutine finding mu
\* in the FreeList at its successive Lock()s and, past those, what it left
\* there itself
GoRun(g, rr, mu) ==
    Exec(rr.call, [heap |-> GoHeap(g, rr.heap0), fl |-> <<>>, mu |-> mu, log |-> <<>>,
                   wr |-> {}, grew |-> <<>>],
         rr.t0)

RECURSIVE Flatten(_)
Flatten(ss) == IF ss = <<>> THEN {} ELSE Range(Head(ss)) \cup Flatten(Tail(ss))

\* The nodes the call r of goroutine rr has written and still holds the truth
\* of: those it left other than it found them, but for the empty nodes that
\* have been in the FreeList, which are whose took them from there.
GoWritten(g, rr, r) ==
    {n \in DOMAIN r.st.heap :
        /\ \/ n \notin DOMAIN GoHeap(g, rr.heap0)
           \/ r.st.heap[n] # GoHeap(g, rr.heap0)[n]
        /\ \/ r.st.heap[n] # ZeroNode
           \/ n \notin Flatten(rr.mu) \cup Flatten(r.st.log)}

\* the nodes the call r of goroutine rr has put in the FreeList
GoFreed(rr, r) ==
    UNION {Range(r.st.log[k]) \ Range(rr.mu[k]) : k \in 1..Len(rr.mu)}

\* The call r of goroutine rr has kept to its own nodes: each node it has
\* written or freed it allocated itself, or took from the FreeList, or found
\* owned by the context of its handle when the call began; and it leaves no
\* freed node under the root of its handle.
GoOwn(g, rr, r) ==
    /\ \A n \in GoWritten(g, rr, r) \cup GoFreed(rr, r) :
          \/ n \notin DOMAIN rr.heap0
          \/ n \in Flatten(rr.mu)
          \/ rr.heap0[n].cow = rr.t0.cow
    /\ \A n \in Range(Visit(r.st.heap, <<r.t.root>>, <<>>)) :
          r.st.heap[n].cow # NilCow

\* what the call c that returned out does to the set a tree stands for
GoElems(S, c, out) ==
    IF c.op = "ReplaceOrInsert" THEN S \cup {c.x} ELSE S \ {out}

\* the memory and the handles once goroutine g has returned: with no call
\* under way the garbage is collected
GoStore(g, st, trs) ==
    IF run[Other(g)].busy
    THEN /\ heap' = st.heap
         /\ freelist' = st.fl
         /\ trees' = trs
    ELSE Store(Commit(st, trs))

\* The call r of goroutine rr returns; hp and fl are the memory and the
\* FreeList its last Unlock() left.
GoReturn(g, rr, r, hp, fl) ==
    /\ GoStore(g, [heap |-> [n \in GoWritten(g, rr, r) |-> r.st.heap[n]] @@ hp,
                   fl   |-> fl, mu |-> <<>>, log |-> <<>>, wr |-> {},
     grew |-> <<>>],
               [trees EXCEPT ![g] = r.t])
    /\ run' = [h \in Handles |->
                 IF h = g
                 THEN [Idle EXCEPT !.n = rr.n, !.call = rr.call, !.want = rr.want,
                                   !.got = [out |-> r.out, panic |-> r.panic],
                                   !.own = rr.own /\ GoOwn(g, rr, r),
                                   !.gave = IF run[Other(g)].busy THEN rr.gave ELSE {}]
                 ELSE IF run[h].busy THEN run[h] ELSE [run[h] EXCEPT !.gave = {}]]
    /\ ret' = [op |-> rr.call.op, h |-> g, out |-> r.out, panic |-> r.panic]
    /\ elems' = [elems EXCEPT ![g] = GoElems(@, rr.call, r.out)]
    /\ written' = written \cup {g}
    /\ UNCHANGED nclones

\* Goroutine rr gets the mutex for the next time: r is its call run with that
\* Lock(), fl what it then leaves in the FreeList.
GoLocked(g, rr, r, fl) ==
    /\ handed' = (handed \/ (/\ run[Other(g)].busy
                             /\ (Range(freelist) \ Range(fl)) \cap run[Other(g)].gave # {}))
    /\ IF Len(r.st.log) = Len(rr.mu) + 1
       THEN GoReturn(g, [rr EXCEPT !.mu = Append(@, freelist),
                                   !.gave = @ \cup (Range(fl) \ Range(freelist))],
                     r, [n \in Range(fl) \ Range(freelist) |-> ZeroNode] @@ heap, fl)
       ELSE /\ heap' = [n \in Range(fl) \ Range(freelist) |-> ZeroNode] @@ heap
            /\ freelist' = fl
            /\ run' = [run EXCEPT ![g] = [rr EXCEPT !.mu = Append(@, freelist),
                                                    !.gave = @ \cup (Range(fl) \ Range(freelist))]]
            /\ UNCHANGED <<trees, elems, ret, written, nclones>>

\* the next step of goroutine rr: r is its call run with the Lock()s so far
GoNext(g, rr, r) ==
    IF Len(r.st.log) = Len(rr.mu)
    THEN GoReturn(g, rr, r, heap, freelist) /\ UNCHANGED handed
    ELSE Bind(GoRun(g, rr, Append(rr.mu, freelist)), LAMBDA r1 :
         GoLocked(g, rr, r1, r1.st.log[Len(rr.mu) + 1]))

GoAdvance(g, rr) == GoNext(g, rr, GoRun(g, rr, rr.mu))

\* the same call in iso[g], and what it leaves there
IsoMem(g) == [heap |-> iso[g].heap, fl |-> iso[g].fl, mu |-> <<>>, log |-> <<>>, wr |-> {},
     grew |-> <<>>]

IsoRun(g, c) == Exec(c, IsoMem(g), iso[g].trees[g])

IsoStore(g, r) ==
    Bind(Commit(r.st, [iso[g].trees EXCEPT ![g] = r.t]), LAMBDA c :
    [heap |-> c.heap, fl |-> c.fl, trees |-> c.trees])

\* the goroutine of handle g calls c, and runs to its first Lock() or to the
\* return of the call
GoBegin(g, c, r) ==
    /\ iso' = [iso EXCEPT ![g] = IsoStore(g, r)]
    /\ GoAdvance(g, [busy  |-> TRUE, n |-> run[g].n + 1, call |-> c,
                     heap0 |-> heap, t0 |-> trees[g], mu |-> <<>>,
                     gave  |-> run[g].gave, own |-> run[g].own, got |-> NoResult,
                     want  |-> [out |-> r.out, panic |-> r.panic]])

GoCall(g, c) ==
    /\ nclones > 0
    /\ ~run[g].busy
    /\ run[g].n < MaxGoOps
    /\ c.op \in {"Delete", "DeleteMin", "DeleteMax"} => trees[g].length > -GoDeficit
    /\ GoBegin(g, c, IsoRun(g, c))

GoStep(g) ==
    /\ run[g].busy
    /\ GoAdvance(g, run[g])
    /\ UNCHANGED iso

\* t2 = t.Clone(), after which the two goroutines start
GoFork ==
    /\ nclones = 0
    /\ CallClone(1, 2)
    /\ iso' = [g \in Handles |-> [heap |-> heap', fl |-> freelist', trees |-> trees']]
    /\ UNCHANGED <<run, handed>>

NextGo ==
    \/ nclones = 0 /\ Write(1, GoItems, GoDeficit)
    \/ GoFork
    \/ \E g \in Handles : \E c \in GoCalls : GoCall(g, c)
    \/ \E g \in Handles : GoStep(g)

SpecGo == Init /\ [][NextGo]_vars

\* ---------------------------------------------------------------- observations
Live1(h) == trees[h].degree > 0

\* the nodes under the root of handle h
NodesOf(h) == Range(Visit(heap, <<trees[h].root>>, <<>>))

RECURSIVE Height(_, _)
Height(hp, n) ==
    IF n = NilNode THEN 0
    ELSE IF Len(hp[n].children) = 0 THEN 1
    ELSE 1 + Height(hp, hp[n].children[1])

\* the tree under n as a value: its items and the trees under its children
RECURSIVE Shape(_, _)
Shape(hp, n) ==
    IF n = NilNode THEN <<>>
    ELSE [items |-> hp[n].items,
          kids  |-> [k \in 1..Len(hp[n].children) |-> Shape(hp, hp[n].children[k])]]

RECURSIVE SortedSeq(_)
SortedSeq(S) ==
    IF S = {} THEN <<>>
    ELSE Bind(CHOOSE x \in S : \A y \in S : x <= y, LAMBDA m :
         <<m>> \o SortedSeq(S \ {m}))

Reverse(s) == [k \in 1..Len(s) |-> s[Len(s) + 1 - k]]

NoStop == {}

\* ---------------------------------------------------------------- C1
\* C1: after any sequence of ReplaceOrInsert, Delete, DeleteMin and DeleteMax
\* every node under the root other than the root holds between degree-1 and
\* 2*degree-1 items, and the root holds at most 2*degree-1 items.
C1_NodeSizes ==
    \A h \in Handles :
        Live1(h) =>
            \A n \in NodesOf(h) :
                /\ Len(heap[n].items) <= 2 * trees[h].degree - 1
                /\ n # trees[h].root => Len(heap[n].items) >= trees[h].degree - 1

\* after a deletion that found its item: a tree of two levels or more with a
\* node at the lower bound and a node at the upper bound
C1_Witness ==
    /\ ret.op \in {"Delete", "DeleteMin", "DeleteMax"}
    /\ ret.out # NilItem
    /\ Height(heap, trees[1].root) >= 2
    /\ \E n \in NodesOf(1) \ {trees[1].root} : Len(heap[n].items) = trees[1].degree - 1
    /\ \E n \in NodesOf(1) : Len(heap[n].items) = 2 * trees[1].degree - 1

\* ---------------------------------------------------------------- C2
\* C2: a full Ascend visits exactly the elements inserted and not since
\* deleted, each once and in strictly increasing order, and a full Descend
\* visits the same elements in the reverse order.
C2_RefinesSet ==
    \A h \in Handles :
        Live1(h) =>
            /\ Ascend(Mem, trees[h], NoStop) = SortedSeq(elems[h])
            /\ Descend(Mem, trees[h], NoStop) = Reverse(SortedSeq(elems[h]))

\* the tree holds the seven items of the round trip of the specification
C2_Witness ==
    /\ ret.op = "ReplaceOrInsert"
    /\ trees[1].degree = 2
    /\ Ascend(Mem, trees[1], NoStop) = <<1, 2, 3, 4, 5, 6, 7>>
    /\ Descend(Mem, trees[1], NoStop) = <<7, 6, 5, 4, 3, 2, 1>>

\* ---------------------------------------------------------------- C3
\* the elements of handle h as a full Ascend shows them, before a step and after
Stored(h) == Ascend(Mem, trees[h], NoStop)

MemNext == [heap |-> heap', fl |-> freelist', mu |-> <<>>, log |-> <<>>, wr |-> {},
     grew |-> <<>>]

StoredNext(h) == Ascend(MemNext, trees'[h], NoStop)

\* C3: ReplaceOrInsert(x) of a non-nil x returns nil and raises Len by one when
\* no element equal to x was stored, and returns the stored element and leaves
\* Len as it was when one was; either way x is stored afterwards.
C3_InsertReturns ==
    [][\A h \in Handles : \A x \in Items :
          DoReplaceOrInsert(h, x) =>
              /\ ~ret'.panic
              /\ Has(MemNext, trees'[h], x)
              /\ IF Has(Mem, trees[h], x)
                 THEN ret'.out = x /\ trees'[h].length = trees[h].length
                 ELSE ret'.out = NilItem /\ trees'[h].length = trees[h].length + 1]_vars

\* ---------------------------------------------------------------- C4
\* C4: Delete(x) of an x that is not stored returns nil and leaves Len and the
\* tree as they were: the same nodes with the same items and children.
C4_AbsentDeleteKeepsShape ==
    [][\A h \in Handles : \A x \in Items :
          (~Has(Mem, trees[h], x) /\ DoDelete(h, x)) =>
              /\ ret'.out = NilItem
              /\ trees'[h].length = trees[h].length
              /\ Shape(heap', trees'[h].root) = Shape(heap, trees[h].root)]_vars

\* C4, amended: Delete(x) of an x that is not stored returns nil and leaves Len
\* and the stored elements (what Ascend visits, what Get finds) as they were;
\* the nodes on the way down may have been grown, merged or copied.
C4_AbsentDeleteKeepsContent ==
    [][\A h \in Handles : \A x \in Items :
          (ret'.op = "Delete" /\ ~Has(Mem, trees[h], x) /\ DoDelete(h, x)) =>
              /\ ret'.out = NilItem
              /\ trees'[h].length = trees[h].length
              /\ StoredNext(h) = Stored(h)
              /\ \A k \in Items : Get(MemNext, trees'[h], k) = Get(Mem, trees[h], k)]_vars

\* a Delete that found nothing in a tree of height two or more
C4_Witness ==
    /\ ret.op = "Delete"
    /\ ret.out = NilItem
    /\ Height(heap, trees[ret.h].root) >= 2
    /\ Cardinality(elems[ret.h]) >= 3

\* ---------------------------------------------------------------- C5
SetMin(S) == CHOOSE x \in S : \A y \in S : x <= y

SetMax(S) == CHOOSE x \in S : \A y \in S : y <= x

\* the sequence s without the item x
Without(s, x) == SelectSeq(s, LAMBDA y : y # x)

\* C5: on a tree that is not empty Delete(x) of a stored x returns x, DeleteMin
\* the smallest and DeleteMax the largest stored element; the element returned
\* is stored no more, the others all are, and Len is one less.
C5_DeleteReturns ==
    [][\A h \in Handles :
          /\ \A x \in elems[h] :
                (ret'.op = "Delete" /\ DoDelete(h, x)) =>
                    /\ ret'.out = x
                    /\ trees'[h].length = trees[h].length - 1
                    /\ StoredNext(h) = Without(Stored(h), x)
          /\ (ret'.op = "DeleteMin" /\ elems[h] # {} /\ DoDeleteMin(h)) =>
                    /\ ret'.out = SetMin(elems[h])
                    /\ trees'[h].length = trees[h].length - 1
                    /\ StoredNext(h) = Without(Stored(h), SetMin(elems[h]))
          /\ (ret'.op = "DeleteMax" /\ elems[h] # {} /\ DoDeleteMax(h)) =>
                    /\ ret'.out = SetMax(elems[h])
                    /\ trees'[h].length = trees[h].length - 1
                    /\ StoredNext(h) = Without(Stored(h), SetMax(elems[h]))]_vars

\* DeleteMax has taken the largest item out of a tree of height two or more
C5_Witness ==
    /\ ret.op = "DeleteMax"
    /\ ret.out # NilItem
    /\ elems[ret.h] # {}
    /\ \A y \in elems[ret.h] : y < ret.out
    /\ Height(heap, trees[ret.h].root) >= 2

\* ---------------------------------------------------------------- C6
\* the bounds of a range scan: the items, and one past the largest
RangeBounds == 1..(MaxItem + 1)

\* C6: AscendRange(a, b) calls the iterator exactly on the stored elements e
\* with a <= e < b, in increasing order.
C6_AscendRangeExact ==
    \A h \in Handles :
        Live1(h) =>
            \A a \in RangeBounds : \A b \in RangeBounds :
                AscendRange(Mem, trees[h], a, b, NoStop)
                    = SelectSeq(SortedSeq(elems[h]), LAMBDA e : a <= e /\ e < b)

\* a scan of the middle of a tree of height three
C6_Witness ==
    /\ Height(heap, trees[1].root) >= 3
    /\ elems[1] = 1..MaxItem
    /\ AscendRange(Mem, trees[1], 3, 6, NoStop) = <<3, 4, 5>>

\* ---------------------------------------------------------------- C7
\* what Len, Get and a full Ascend show of handle h, before a step and after
View(h) ==
    [len    |-> BTree_Len(trees[h]),
     get    |-> [k \in CloneItems |-> Get(Mem, trees[h], k)],
     ascend |-> Stored(h)]

ViewNext(h) ==
    [len    |-> BTree_Len(trees'[h]),
     get    |-> [k \in CloneItems |-> Get(MemNext, trees'[h], k)],
     ascend |-> StoredNext(h)]

Writes == {"ReplaceOrInsert", "Delete", "DeleteMin", "DeleteMax", "ClearTrue", "ClearFalse"}

\* C7: after t2 = t.Clone() no ReplaceOrInsert, Delete, DeleteMin, DeleteMax or
\* Clear (with either flag) on one of the two handles changes what Len, Get or
\* a full Ascend show of the other.
C7_CloneIndependence ==
    [][\A h \in Handles :
          (nclones > 0 /\ ret'.op \in Writes /\ ret'.h # h) =>
              ViewNext(h) = View(h)]_vars

\* a write that changed the tree of one handle of a pair whose other handle
\* still shows the three or more elements it was cloned with
C7_Witness ==
    /\ nclones > 0
    /\ ret.op \in {"Delete", "DeleteMin", "DeleteMax"}
    /\ ret.out # NilItem
    /\ \E h \in Handles :
          /\ h # ret.h
          /\ Len(Stored(h)) >= 3
          /\ ret.out \in Range(Stored(h))
          /\ ret.out \notin Range(Stored(ret.h))

\* ---------------------------------------------------------------- C9
\* C9: New with a degree of one or less and ReplaceOrInsert(nil) are the only
\* calls that panic: every other operation, on arguments that are not nil,
\* returns.
C9_OnlyTwoPanics ==
    [][\A h \in Handles :
          /\ \A x \in Items : DoReplaceOrInsert(h, x) => ~ret'.panic
          /\ \A x \in Items : DoDelete(h, x) => ~ret'.panic
          /\ DoDeleteMin(h) => ~ret'.panic
          /\ DoDeleteMax(h) => ~ret'.panic
          /\ \A b \in BOOLEAN : DoClear(h, b) => ~ret'.panic]_vars

\* ---------------------------------------------------------------- C10
\* C10: a mutation either returns, having done all of its work, or panics
\* before it has changed anything: a call that panicked leaves every tree, Len
\* and the FreeList as they were.
C10_PanicChangesNothing ==
    [][ret'.panic =>
          /\ \A h \in Handles :
                /\ Shape(heap', trees'[h].root) = Shape(heap, trees[h].root)
                /\ trees'[h].length = trees[h].length
          /\ Len(freelist') = Len(freelist)]_vars

\* ---------------------------------------------------------------- C8
\* C8: when, after t2 = t.Clone(), one goroutine calls ReplaceOrInsert and
\* Delete* on t and another on t2, their steps interleaved in any way and the
\* two sharing one FreeList, no goroutine writes a node that is under the
\* other's handle: each writes and frees only nodes it allocated, took from
\* the FreeList or found owned by the context of its own handle, and no node
\* under a handle is in the FreeList or owned by the other handle's context;
\* and every call returns what it returns, and leaves in its handle the
\* elements and the Len it leaves, when the calls on that handle are the only
\* ones made.
C8_GoroutinesAsAlone ==
    \A g \in Handles :
        (nclones > 0 /\ ~run[g].busy) =>
            /\ run[g].own
            /\ \A n \in NodesOf(g) :
                  /\ n \notin Range(freelist)
                  /\ heap[n].cow # NilCow
                  /\ heap[n].cow # trees[Other(g)].cow
            /\ run[g].got = run[g].want
            /\ Stored(g) = Ascend(IsoMem(g), iso[g].trees[g], NoStop)
            /\ \A k \in GoItems : Get(Mem, trees[g], k) = Get(IsoMem(g), iso[g].trees[g], k)
            /\ BTree_Len(trees[g]) = BTree_Len(iso[g].trees[g])

\* both goroutines have returned from calls that changed their trees, one of
\* them having taken from the FreeList a node the other put there meanwhile
C8_Witness ==
    /\ handed
    /\ \A g \in Handles :
          /\ ~run[g].busy
          /\ run[g].n = MaxGoOps
    /\ \E g \in Handles : Len(Stored(g)) >= 2

\* ---------------------------------------------------------------- C11
\* C11: a key that is not stored is answered with nil, never with a panic:
\* Get(k) and Delete(k) return nil and Has(k) false for every k not in the
\* tree, and Min, Max, DeleteMin and DeleteMax return nil on every empty tree,
\* be its root nil (never written, or cleared) or a leaf left with no item.
C11_NotFoundIsNil ==
    \A h \in Handles :
        Live1(h) =>
            /\ \A k \in Items \ elems[h] :
                  /\ Get(Mem, trees[h], k) = NilItem
                  /\ ~Has(Mem, trees[h], k)
                  /\ Delete(Mem, trees[h], k).out = NilItem
                  /\ ~Delete(Mem, trees[h], k).panic
            /\ elems[h] = {} =>
                  /\ Min(Mem, trees[h]) = NilItem
                  /\ Max(Mem, trees[h]) = NilItem
                  /\ DeleteMin(Mem, trees[h]).out = NilItem
                  /\ ~DeleteMin(Mem, trees[h]).panic
                  /\ DeleteMax(Mem, trees[h]).out = NilItem
                  /\ ~DeleteMax(Mem, trees[h]).panic

\* DeleteMin has found nothing in a tree that deletions emptied: its root is a
\* leaf with no item
C11_Witness ==
    /\ ret.op = "DeleteMin"
    /\ ret.out = NilItem
    /\ trees[ret.h].root # NilNode
    /\ Len(heap[trees[ret.h].root].items) = 0
    /\ elems[ret.h] = {}

\* ---------------------------------------------------------------- C12
\* C12: whatever the order in which the contexts of several trees call newNode
\* and freeNode on the FreeList they share, the FreeList never holds more
\* nodes than its capacity; freeNode stores the node (last) and returns true
\* (ftStored to the caller of the context) exactly when the FreeList held
\* fewer nodes than its capacity, and otherwise returns false
\* (ftFreelistFull) and leaves the FreeList as it was.
C12_PoolBound ==
    [][/\ Len(freelist) <= FreeListSize
       /\ Len(freelist') <= FreeListSize
       /\ \A h \in Handles : \A n \in DOMAIN heap :
             (ret'.op = "freeNode" /\ PoolFreeNode(h, n)) =>
                 IF Len(freelist) < FreeListSize
                 THEN ret'.out = "ftStored" /\ freelist' = Append(freelist, n)
                 ELSE ret'.out = "ftFreelistFull" /\ freelist' = freelist]_vars

\* the FreeList is full, with nodes two contexts put there, and has refused
\* one more
C12_Witness ==
    /\ ret.op = "freeNode"
    /\ ret.out = "ftFreelistFull"
    /\ Len(freelist) = FreeListSize
    /\ \E n \in DOMAIN heap : heap[n].cow # NilCow /\ heap[n].cow # ret.h

\* ---------------------------------------------------------------- C13
\* C13: Clear(false) leaves the tree empty (Len is 0, the root nil, Ascend
\* visits nothing, Min and Max are nil) and writes no node and not the
\* FreeList; called again at once it changes nothing.
C13_ClearFalseIdempotent ==
    [][\A h \in Handles :
          (ret'.op = "ClearFalse" /\ DoClear(h, FALSE)) =>
              /\ Clear(Mem, trees[h], FALSE).st = Mem
              /\ BTree_Len(trees'[h]) = 0
              /\ trees'[h].root = NilNode
              /\ StoredNext(h) = <<>>
              /\ Min(MemNext, trees'[h]) = NilItem
              /\ Max(MemNext, trees'[h]) = NilItem
              /\ Len(freelist') = Len(freelist)
              /\ Clear(MemNext, trees'[h], FALSE).st = MemNext
              /\ Clear(MemNext, trees'[h], FALSE).t = trees'[h]]_vars

\* Clear(false) has emptied a tree beside a FreeList that holds nodes
C13_Witness ==
    /\ ret.op = "ClearFalse"
    /\ trees[ret.h].root = NilNode
    /\ Len(freelist) = FreeListSize

\* ---------------------------------------------------------------- C14
\* C14: insert at a node with no children that does not hold the element
\* puts the element at the index find gave and returns nil at once: it does
\* not go on to maybeSplitChild, to the children of the node or further down.
C14_LeafInsertReturns ==
    \A h \in Handles :
        Live1(h) =>
            \A n \in NodesOf(h) : \A x \in Items :
                (/\ Len(heap[n].children) = 0
                 /\ ~find(heap[n].items, x).found
                 /\ Len(heap[n].items) < BTree_maxItems(trees[h])) =>
                    /\ ~insert(Mem, n, x, BTree_maxItems(trees[h])).panic
                    /\ insert(Mem, n, x, BTree_maxItems(trees[h])).out = NilItem
                    /\ insert(Mem, n, x, BTree_maxItems(trees[h])).st.heap[n].items
                          = items_insertAt(heap[n].items, find(heap[n].items, x).index, x)

\* ---------------------------------------------------------------- C15
\* the write operations of the claim, on items of CloneItems
OwnCalls ==
    {[op |-> "ReplaceOrInsert", x |-> x, b |-> FALSE] : x \in CloneItems}
        \cup {[op |-> "Delete", x |-> x, b |-> FALSE] : x \in CloneItems}
        \cup {[op |-> o, x |-> NilItem, b |-> FALSE] : o \in {"DeleteMin", "DeleteMax"}}
        \cup {[op |-> "Clear", x |-> NilItem, b |-> TRUE]}

Call(c, st, tr) ==
    IF c.op = "Clear" THEN Clear(st, tr, c.b) ELSE Exec(c, st, tr)

\* C15: a write operation on handle t stores to the items, the children or
\* the cow of a node only while the node carries t.cow, the one store to a
\* node without cow being that of newNode to a node it has just allocated or
\* taken from the FreeList; a node with another cow is left as it was and is
\* not put in the FreeList.
C15_WritesOwnNodes ==
    \A h \in Handles :
        Live1(h) =>
            \A c \in OwnCalls :
                Bind(Call(c, Mem, trees[h]), LAMBDA r :
                /\ \A w \in r.st.wr :
                      \/ w[2] = trees[h].cow
                      \/ /\ w[2] = NilCow
                         /\ \A g \in Handles : w[1] \notin NodesOf(g)
                /\ \A n \in DOMAIN heap :
                      heap[n].cow \notin {trees[h].cow, NilCow} =>
                          /\ r.st.heap[n] = heap[n]
                          /\ n \notin Range(r.st.fl))

\* after t2 = t.Clone() a deletion has written one of the handles, whose tree
\* now has nodes of its own beside nodes it still shares
C15_Witness ==
    /\ nclones > 0
    /\ ret.op \in {"Delete", "DeleteMin", "DeleteMax"}
    /\ ret.out # NilItem
    /\ \E n \in NodesOf(ret.h) : heap[n].cow = trees[ret.h].cow
    /\ \E n \in NodesOf(ret.h) : heap[n].cow # trees[ret.h].cow

\* ---------------------------------------------------------------- C16
\* the nodes under the root of handle h after a step
NodesOfNext(h) == Range(Visit(heap', <<trees'[h].root>>, <<>>))

\* C16: t2 = t.Clone() copies no node and writes none (the nodes under the
\* root of t are those there were, each with its items, its children and the
\* context it had, a context being known by the nodes that carry it, and the
\* FreeList holds the empty nodes it held): t and t2 then have the
\* root, the degree and the Len t had, and two different new contexts that no
\* node under either handle carries; so the first write on either handle
\* that gets to the root works on a copy of it, and leaves every node the two
\* handles share as it is.
C16_CloneSharesAll ==
    [][(ret'.op = "Clone" /\ DoClone(1, 2)) =>
          /\ \A n \in NodesOf(1) :
                /\ heap'[n].items = heap[n].items
                /\ heap'[n].children = heap[n].children
                /\ heap'[n].cow = NilCow <=> heap[n].cow = NilCow
                /\ \A m \in NodesOf(1) :
                      heap'[n].cow = heap'[m].cow <=> heap[n].cow = heap[m].cow
          /\ Len(freelist') = Len(freelist)
          /\ \A k \in 1..Len(freelist') : heap'[freelist'[k]] = ZeroNode
          /\ Clone(trees[1], NewCow(UsedCows),
                   NewCow(UsedCows \cup {NewCow(UsedCows)})).t.cow \notin UsedCows
          /\ Clone(trees[1], NewCow(UsedCows),
                   NewCow(UsedCows \cup {NewCow(UsedCows)})).t2.cow \notin UsedCows
          /\ trees'[1].cow # trees'[2].cow
          /\ \A h \in Handles :
                /\ trees'[h].root = trees[1].root
                /\ trees'[h].degree = trees[1].degree
                /\ trees'[h].length = trees[1].length
                /\ \A n \in NodesOfNext(h) :
                      heap'[n].cow \notin {trees'[1].cow, trees'[2].cow}
                /\ \A c \in OwnCalls :
                      Bind(Call(c, MemNext, trees'[h]), LAMBDA r :
                      /\ \A n \in NodesOfNext(h) : r.st.heap[n] = heap'[n]
                      /\ r.st.wr # {} =>
                            /\ r.t.root \notin NodesOfNext(h)
                            /\ r.st.heap[r.t.root].cow = trees'[h].cow)]_vars

\* the two handles just after the Clone of a tree of two levels
C16_Witness ==
    /\ ret.op = "Clone"
    /\ trees[1].root # NilNode
    /\ trees[2].root = trees[1].root
    /\ Height(heap, trees[1].root) >= 2

\* ---------------------------------------------------------------- C17
\* the calls of Delete, DeleteMin and DeleteMax
DeleteCalls ==
    {[op |-> "Delete", x |-> x, b |-> FALSE] : x \in Items}
        \cup {[op |-> o, x |-> NilItem, b |-> FALSE] : o \in {"DeleteMin", "DeleteMax"}}

\* C17: remove entered again on a node after growChildAndRemove has stolen or
\* merged there picks a child with more than minItems items: in no call of
\* Delete, DeleteMin or DeleteMax is growChildAndRemove called twice on one
\* node, whether the item is found or not, and the call comes to its end
\* having grown at most one child at each level above the leaves.
C17_GrowsOncePerNode ==
    \A h \in Handles :
        Live1(h) =>
            \A c \in DeleteCalls :
                Bind(Exec(c, Mem, trees[h]).st.grew, LAMBDA g :
                /\ \A j \in 1..Len(g) : \A k \in 1..Len(g) : g[j] = g[k] => j = k
                /\ Len(g) < Height(heap, trees[h].root) \/ Len(g) = 0)

\* a tree of three levels in which Delete of an item found in the root, Delete
\* of an item the root does not hold, DeleteMin and DeleteMax all grow a child
\* of the root, and the last three a child below it as well
C17_Witness ==
    /\ Height(heap, trees[1].root) >= 3
    /\ \E x \in Range(heap[trees[1].root].items) :
          /\ Len(Delete(Mem, trees[1], x).st.grew) >= 1
          /\ Delete(Mem, trees[1], x).st.grew[1] = trees[1].root
    /\ \E x \in Items \ Range(heap[trees[1].root].items) :
          Len(Delete(Mem, trees[1], x).st.grew) = 2
    /\ Len(DeleteMin(Mem, trees[1]).st.grew) = 2
    /\ Len(DeleteMax(Mem, trees[1]).st.grew) = 2

\* ---------------------------------------------------------------- C18
\* Scan(S) being the items a scan calls an iterator on that returns false on
\* the items of S and true on the others: with an iterator that returns false
\* on the k-th item of the full scan, the scan calls it on the first k items
\* of the full scan and no more.
StopsAt(Scan(_)) ==
    Bind(Scan(NoStop), LAMBDA full :
    \A k \in 1..Len(full) : Scan({full[k]}) = SubSeq(full, 1, k))

\* C18: in each of the eight scans, once the iterator has returned false it is
\* not called again: the items it has been called on are those of the full
\* scan up to and including the one it returned false on.
C18_ScanStopsAtFalse ==
    \A h \in Handles :
        Live1(h) =>
            /\ StopsAt(LAMBDA S : Ascend(Mem, trees[h], S))
            /\ StopsAt(LAMBDA S : Descend(Mem, trees[h], S))
            /\ \A p \in Items :
                  /\ StopsAt(LAMBDA S : AscendLessThan(Mem, trees[h], p, S))
                  /\ StopsAt(LAMBDA S : AscendGreaterOrEqual(Mem, trees[h], p, S))
                  /\ StopsAt(LAMBDA S : DescendLessOrEqual(Mem, trees[h], p, S))
                  /\ StopsAt(LAMBDA S : DescendGreaterThan(Mem, trees[h], p, S))
            /\ \A a \in RangeBounds : \A b \in RangeBounds :
                  a < b =>
                      /\ StopsAt(LAMBDA S : AscendRange(Mem, trees[h], a, b, S))
                      /\ StopsAt(LAMBDA S : DescendRange(Mem, trees[h], b, a, S))

\* scans of a tree of three levels stopped at an item of a leaf, of the root
\* and of a node between
C18_Witness ==
    /\ Height(heap, trees[1].root) >= 3
    /\ elems[1] = 1..MaxItem
    /\ Ascend(Mem, trees[1], {1}) = <<1>>
    /\ Descend(Mem, trees[1], {heap[trees[1].root].items[1]})
          = SubSeq(<<7, 6, 5, 4, 3, 2, 1>>, 1, 8 - heap[trees[1].root].items[1])
    /\ DescendRange(Mem, trees[1], 6, 1, {5}) = <<6, 5>>
    /\ AscendGreaterOrEqual(Mem, trees[1], 2, {3}) = <<2, 3>>

\* ---------------------------------------------------------------- C19
\* C19: DescendRange(hi, lo) calls the iterator exactly on the stored
\* elements e with lo < e <= hi, in decreasing order, be hi stored or not.
C19_DescendRangeExact ==
    \A h \in Handles :
        Live1(h) =>
            \A hi \in RangeBounds : \A lo \in RangeBounds :
                DescendRange(Mem, trees[h], hi, lo, NoStop)
                    = Reverse(SelectSeq(SortedSeq(elems[h]), LAMBDA e : lo < e /\ e <= hi))

\* scans of a tree of two levels or more: from a bound that is not stored and
\* lies between two stored items, from a stored item, and from an item of the
\* root
C19_Witness ==
    /\ Height(heap, trees[1].root) >= 2
    /\ 4 \notin elems[1]
    /\ {2, 3, 5, 6} \subseteq elems[1]
    /\ DescendRange(Mem, trees[1], 4, 2, NoStop) = <<3>>
    /\ DescendRange(Mem, trees[1], 5, 2, NoStop) = <<5, 3>>
    /\ \E x \in Range(heap[trees[1].root].items) :
          Head(DescendRange(Mem, trees[1], x, 1, NoStop)) = x

\* ---------------------------------------------------------------- C20
\* the items of the nodes under n, n included
SubtreeItems(hp, n) == UNION {Range(hp[m].items) : m \in Range(Visit(hp, <<n>>, <<>>))}

\* C20: every node under the root of a handle has no children or one child
\* more than it has items; its items are strictly increasing; and each of its
\* items is greater than every item under the child to its left and less
\* than every item under the child to its right.
C20_NodesValid ==
    \A h \in Handles :
        Live1(h) =>
            \A n \in NodesOf(h) :
                /\ \/ Len(heap[n].children) = 0
                   \/ Len(heap[n].children) = Len(heap[n].items) + 1
                /\ \A i \in 1..(Len(heap[n].items) - 1) :
                      Less(heap[n].items[i], heap[n].items[i + 1])
                /\ Len(heap[n].children) > 0 =>
                      \A i \in 1..Len(heap[n].items) :
                          /\ \A e \in SubtreeItems(heap, heap[n].children[i]) :
                                Less(e, heap[n].items[i])
                          /\ \A e \in SubtreeItems(heap, heap[n].children[i + 1]) :
                                Less(heap[n].items[i], e)

\* a deletion that found its item has left a tree of degree 2 with six items
\* on two levels, under a root with two items or more
C20_Witness ==
    /\ ret.op \in {"Delete", "DeleteMin", "DeleteMax"}
    /\ ret.out # NilItem
    /\ trees[1].degree = 2
    /\ Cardinality(elems[1]) = 6
    /\ Height(heap, trees[1].root) = 2
    /\ Len(heap[trees[1].root].items) >= 2

\* ---------------------------------------------------------------- C21
\* C21: between calls, and after a call that panicked as well, Len() of every
\* handle is the number of elements a full Ascend of that handle visits.
C21_LenCountsVisited ==
    \A h \in Handles :
        Live1(h) => BTree_Len(trees[h]) = Len(Ascend(Mem, trees[h], NoStop))

\* ---------------------------------------------------------------- C22
\* C22: every node the FreeList holds has no items, no children and no cow,
\* is held there once, and is under the root of no handle; so the node that
\* newNode hands out is under no handle, is no longer in the FreeList and
\* carries nothing but the cow of the context that asked for it.
C22_PoolNotAliased ==
    /\ \A k \in 1..Len(freelist) : heap[freelist[k]] = ZeroNode
    /\ \A j, k \in 1..Len(freelist) : j # k => freelist[j] # freelist[k]
    /\ \A h \in Handles : Live1(h) => Range(freelist) \cap NodesOf(h) = {}
    /\ \A h \in Handles :
          Live1(h) =>
              LET r == cow_newNode(Mem, trees[h].cow)
              IN  /\ \A g \in Handles : Live1(g) => r.n \notin NodesOf(g)
                  /\ r.n \notin Range(r.st.fl)
                  /\ r.st.heap[r.n] = [ZeroNode EXCEPT !.cow = trees[h].cow]
                  /\ freelist # <<>> =>
                        /\ r.n = freelist[Len(freelist)]
                        /\ r.st.fl = SubSeq(freelist, 1, Len(freelist) - 1)

\* Clear(true) on a handle has filled the FreeList while the handle cloned
\* with it still has a tree of two levels
C22_Witness ==
    /\ ret.op = "ClearTrue"
    /\ trees[ret.h].root = NilNode
    /\ Len(freelist) = FreeListSize
    /\ \E g \in Handles \ {ret.h} :
          /\ Live1(g)
          /\ Height(heap, trees[g].root) >= 2

====
